---- MODULE Spec2Model ----
(***************************************************************************)
(* State-machine model of update_gsheet.py: one run of the GPU usage       *)
(* logger.  A run initialises NVML, polls every device in a loop,          *)
(* accumulates the observations per key, shuts NVML down, reduces the      *)
(* accumulators to rows and writes the rows to the worksheet.              *)
(*                                                                         *)
(* Number representation.  Memory in GB is always a value rounded to three *)
(* decimals (or a sum of such values), so it is held as an integer number  *)
(* of thousandths of a GB.  Mean utilisation is rounded to one decimal and *)
(* held as an integer number of tenths of a percent.  Byte counts exceed   *)
(* 32 bits, so a byte count is the pair [gib, rem] = gib * 2^30 + rem.     *)
(* Strings that the code builds (command lines) are sequences of           *)
(* one-character strings; user names are strings.                          *)
(***************************************************************************)
EXTENDS Integers, Sequences, FiniteSets, TLC

VARIABLES
    SERVER_TYPE,    \* "internal" | "external"                    (line 37)
    LOG_DURATION,   \* int(LOG_DURATION_SEC)                      (line 50)
    POLL_INTERVAL,  \* int(POLL_INTERVAL_SEC)                     (line 51)
    deviceCount,    \* what nvmlDeviceGetCount() returns on this host
    procTable,      \* pids of the compute processes that exist during the run
    sampleTime,     \* seconds one snapshot takes on this host
    pc,             \* position of the script
    nvml,           \* "uninit" | "initialized" | "shutdown"
    shutdowns,      \* number of nvmlShutdown() calls made
    raised,         \* the exception that ended the script, "none" if none
    now,            \* time.time(), seconds since the script started
    start_ts,       \* line 160
    end_ts,         \* line 189, -1 until taken
    end_time,       \* line 166
    agg,            \* dict key -> [mem_sum, util_sum, total], insertion ordered
    count,          \* dict key -> number of samples, insertion ordered
    devs,           \* what the device layer reported in the poll just made
    snap,           \* the snapshot just made (dead once accumulated: cleared)
    polls,          \* number of completed snapshots
    sleeps,         \* number of completed time.sleep() calls
    rows,           \* the finalized rows (list of lists)
    sheet           \* the ws.update() calls made: <<[range, values]>>

vars == <<SERVER_TYPE, LOG_DURATION, POLL_INTERVAL, deviceCount, procTable,
          sampleTime, pc, nvml,
          shutdowns, raised, now, start_ts, end_ts, end_time, agg, count, devs, snap,
          polls, sleeps, rows, sheet>>

-----------------------------------------------------------------------------
(* Bounds of the model *)

\* largest number of devices nvmlDeviceGetCount() reports
MaxDevices == 2
\* longest process list a device reports
MaxProcs == 2
\* polls explored in one run (caps the loop)
MaxPolls == 3
\* devices times (1 + candidate processes) explored in one run
MaxLoad == 4

Modes == {"internal", "external"}
Durations == {-5, 0, 61, 120, 150}
Intervals == {60, 200}
\* seconds one snapshot takes
SampleTimes == {0, 1}
\* values of the ROW environment variable
StartRows == {2, 7}

-----------------------------------------------------------------------------
(* Numbers *)

Max(a, b) == IF a >= b THEN a ELSE b
Min(a, b) == IF a <= b THEN a ELSE b

\* round(n / d) to the nearest integer, an exact tie going to the even
\* neighbour (Python's round on an exactly representable value); n >= 0, d > 0
RoundHalfEven(n, d) ==
    LET q == n \div d
        r == n % d
    IN  IF 2 * r < d THEN q
        ELSE IF 2 * r > d THEN q + 1
        ELSE IF q % 2 = 0 THEN q ELSE q + 1

\* a byte count gib * 2^30 + rem, 0 <= rem < 2^30
Bytes(g, r) == [gib |-> g, rem |-> r]

\* r * 125 as <<quotient, remainder>> of the division by 2^27, for
\* 0 <= r < 2^27, in three multiplications by 5 to stay within 32 bits
Times125(r) ==
    LET M  == 134217728
        y1 == r * 5
        y2 == (y1 % M) * 5
        y3 == (y2 % M) * 5
    IN  <<25 * (y1 \div M) + 5 * (y2 \div M) + (y3 \div M), y3 % M>>

\* round(b / (1024 ** 3), 3), in thousandths of a GB.  b / 2^30 is exact in
\* binary floating point, so round() rounds the true quotient half-to-even:
\* b * 1000 / 2^30 = gib * 1000 + rem * 125 / 2^27.
ToGb(b) ==
    LET M     == 134217728
        qr    == Times125(b.rem % M)
        whole == b.gib * 1000 + 125 * (b.rem \div M) + qr[1]
    IN  IF 2 * qr[2] < M THEN whole
        ELSE IF 2 * qr[2] > M THEN whole + 1
        ELSE IF whole % 2 = 0 THEN whole ELSE whole + 1

-----------------------------------------------------------------------------
(* The host: devices, processes, identities *)

Pids == {101, 102, 103}

\* psutil.Process(pid).username() of a live process
Owner(pid) == IF pid = 103 THEN "bob" ELSE "alice"

\* psutil.Process(pid).cmdline() of a live process: a list of arguments
Cmdline(pid) ==
    IF pid = 101 THEN << <<"p","y","t","h","o","n">>, <<"t","r","a","i","n">> >>
    ELSE IF pid = 102 THEN << <<"p","y","t","h","o","n">>, <<"e","v","a","l">> >>
    ELSE << <<"j","a","v","a">>, [j \in 1..41 |-> "x"] >>

\* usedGpuMemory values a process may be reported with
Footprint(pid) ==
    IF pid = 101 THEN {Bytes(1, 0), Bytes(4, 1048576)}
    ELSE IF pid = 102 THEN {Bytes(1, 536870912)}
    ELSE {Bytes(0, 67108864)}

\* utilization.gpu values and memory.total values a device may report
Utils == {20, 75}
Totals == {Bytes(24, 0), Bytes(15, 1063004405)}

\* one entry of nvmlDeviceGetComputeRunningProcesses, with the outcome of
\* the later identity lookup (alive = FALSE: psutil.Error)
ProcessHandles ==
    UNION {{[pid |-> p, usedGpuMemory |-> m, alive |-> a] :
                m \in Footprint(p), a \in BOOLEAN} : p \in Pids}

\* process lists: distinct pids in increasing order, at most MaxProcs long
ProcLists ==
    UNION {{l \in [1..k -> ProcessHandles] :
                \A a, b \in 1..k : a < b => l[a].pid < l[b].pid} : k \in 0..MaxProcs}

\* what one device returns in one poll when no call raises a fatal error;
\* listing = "NotSupported": the process listing raised NVMLError_NotSupported
DeviceSamples(table) ==
    {[listing |-> "ok", util |-> u, total |-> t, procs |-> l] :
        u \in Utils, t \in Totals,
        l \in {x \in ProcLists : \A j \in 1..Len(x) : x[j].pid \in table}}
    \cup
    {[listing |-> "NotSupported", util |-> u, total |-> t, procs |-> <<>>] :
        u \in Utils, t \in Totals}

-----------------------------------------------------------------------------
(* Identity lookup and the two snapshot functions *)

Unknown == <<"u","n","k","n","o","w","n">>
Idle == <<"I","D","L","E">>
CmdLimit == 40

\* " ".join(args)
RECURSIVE Join(_)
Join(args) ==
    IF Len(args) = 0 THEN <<>>
    ELSE IF Len(args) = 1 THEN args[1]
    ELSE args[1] \o <<" ">> \o Join(Tail(args))

\* s[:40]
Truncate(s) == SubSeq(s, 1, Min(Len(s), CmdLimit))

\* lines 114-117: the user of a listed process
ResolveUser(p) == IF p.alive THEN Owner(p.pid) ELSE "unknown"

\* mutant: the command is not replaced when the lookup fails
ResolveCmdStale(p) == Truncate(Join(Cmdline(p.pid)))

\* lines 147-153: the command of a listed process
ResolveCmd(p) == IF p.alive THEN Truncate(Join(Cmdline(p.pid))) ELSE Unknown

\* lines 106-109 / 138-141: the process list, empty when listing is unsupported
ProcInfos(d) == IF d.listing = "NotSupported" THEN <<>> ELSE d.procs

-----------------------------------------------------------------------------
(* Python dicts: insertion-ordered sequences of <<key, value>> *)

Has(d, k) == \E j \in 1..Len(d) : d[j][1] = k
Get(d, k) == d[CHOOSE j \in 1..Len(d) : d[j][1] = k][2]
Put(d, k, v) ==
    IF Has(d, k)
    THEN [j \in 1..Len(d) |-> IF d[j][1] = k THEN <<k, v>> ELSE d[j]]
    ELSE Append(d, <<k, v>>)
Keys(d) == {d[j][1] : j \in 1..Len(d)}

\* mutant: the last process of a user replaces the sum ("=" for "+=")
RECURSIVE UsageByUserOverwrite(_)
UsageByUserOverwrite(procs) ==
    IF Len(procs) = 0 THEN <<>>
    ELSE LET p == procs[Len(procs)]
         IN  Put(UsageByUserOverwrite(SubSeq(procs, 1, Len(procs) - 1)),
                 ResolveUser(p), ToGb(p.usedGpuMemory))

\* lines 111-118: usage_by_user after the loop over the process list
RECURSIVE UsageByUser(_)
UsageByUser(procs) ==
    IF Len(procs) = 0 THEN <<>>
    ELSE LET before == UsageByUser(SubSeq(procs, 1, Len(procs) - 1))
             p      == procs[Len(procs)]
             user   == ResolveUser(p)
             mem_gb == ToGb(p.usedGpuMemory)
         IN  Put(before, user, (IF Has(before, user) THEN Get(before, user) ELSE 0) + mem_gb)

\* mutant: no placeholder for a device without processes
IdleDefaultMissing(usage) == usage

\* lines 119-120
IdleDefault(usage) == IF Len(usage) = 0 THEN << <<"IDLE", 0>> >> ELSE usage

\* lines 102-122: the rows device i adds, tuples (user, gpu_id, mem, total, util)
InternalRows(i, d) ==
    LET usage == IdleDefault(UsageByUser(ProcInfos(d)))
    IN  [j \in 1..Len(usage) |->
            <<usage[j][1], i, usage[j][2], ToGb(d.total), d.util>>]

\* line 154: the tuple (pid, cmd, user, gpu_id, mem, total, util) of a process
ExternalRow(i, d, p) ==
    <<p.pid, ResolveCmd(p), ResolveUser(p), i, ToGb(p.usedGpuMemory), ToGb(d.total), d.util>>

\* mutant: no placeholder for a device without processes
ExternalIdleMissing(i, d) == <<>>

\* mutant: the placeholder without the counters of the device
ExternalIdleNoCounters(i, d) ==
    IF Len(ProcInfos(d)) = 0 THEN << <<0, Idle, "-", i, 0, 0, 0>> >> ELSE <<>>

\* lines 143-144: the IDLE tuple of a device without processes
ExternalIdle(i, d) ==
    IF Len(ProcInfos(d)) = 0
    THEN << <<0, Idle, "-", i, 0, ToGb(d.total), d.util>> >>
    ELSE <<>>

\* mutant: the append left outside the for loop, so only the last process
\* of a device is recorded
ExternalRowsLastOnly(i, d) ==
    ExternalIdle(i, d) \o
    (IF Len(ProcInfos(d)) = 0 THEN <<>>
     ELSE << ExternalRow(i, d, ProcInfos(d)[Len(ProcInfos(d))]) >>)

\* lines 134-154: the rows device i adds
ExternalRows(i, d) ==
    ExternalIdle(i, d) \o
    [j \in 1..Len(ProcInfos(d)) |-> ExternalRow(i, d, ProcInfos(d)[j])]

\* the readings are a sequence: device i is reading[i + 1]
RECURSIVE snapshot_internal(_)
snapshot_internal(reading) ==
    IF Len(reading) = 0 THEN <<>>
    ELSE snapshot_internal(SubSeq(reading, 1, Len(reading) - 1))
         \o InternalRows(Len(reading) - 1, reading[Len(reading)])

RECURSIVE snapshot_external(_)
snapshot_external(reading) ==
    IF Len(reading) = 0 THEN <<>>
    ELSE snapshot_external(SubSeq(reading, 1, Len(reading) - 1))
         \o ExternalRows(Len(reading) - 1, reading[Len(reading)])

Snapshot(mode, reading) ==
    IF mode = "internal" THEN snapshot_internal(reading) ELSE snapshot_external(reading)

-----------------------------------------------------------------------------
(* Accumulation, lines 168-183 *)

\* the tuple unpacking of lines 170-171 and 178-179
KeyOf(mode, row) ==
    IF mode = "internal" THEN <<row[1], row[2]>> ELSE <<row[1], row[2], row[3], row[4]>>
MemOf(mode, row) == IF mode = "internal" THEN row[3] ELSE row[5]
TotalOf(mode, row) == IF mode = "internal" THEN row[4] ELSE row[6]
UtilOf(mode, row) == IF mode = "internal" THEN row[5] ELSE row[7]

\* dict.setdefault / dict.get: the stored value, or the default for a new key
SetDefault(d, k, default) == IF Has(d, k) THEN Get(d, k) ELSE default

\* mutant: the memory is assigned instead of added ("=" for "+=")
AddStatsAssign(stats, mem, util) == <<mem, stats[2] + util, stats[3]>>

\* lines 172-174 / 180-182: the stats list of the row's key after the row
AddStats(stats, mem, util) == <<stats[1] + mem, stats[2] + util, stats[3]>>

\* mutant: a new key's stats start from the row's values, which are then
\* added again
AccumulateRowSeeded(st, mode, row) ==
    LET key   == KeyOf(mode, row)
        stats == SetDefault(st.agg, key,
                            <<MemOf(mode, row), UtilOf(mode, row), TotalOf(mode, row)>>)
    IN  [agg   |-> Put(st.agg, key, AddStats(stats, MemOf(mode, row), UtilOf(mode, row))),
         count |-> Put(st.count, key, SetDefault(st.count, key, 0) + 1)]

\* mutant: count[key] is created but not incremented
AccumulateRowNoIncrement(st, mode, row) ==
    LET key   == KeyOf(mode, row)
        stats == SetDefault(st.agg, key, <<0, 0, TotalOf(mode, row)>>)
    IN  [agg   |-> Put(st.agg, key, AddStats(stats, MemOf(mode, row), UtilOf(mode, row))),
         count |-> Put(st.count, key, SetDefault(st.count, key, 0))]

\* the body of the for loop, on st = [agg, count]
AccumulateRow(st, mode, row) ==
    LET key   == KeyOf(mode, row)
        stats == SetDefault(st.agg, key, <<0, 0, TotalOf(mode, row)>>)
    IN  [agg   |-> Put(st.agg, key, AddStats(stats, MemOf(mode, row), UtilOf(mode, row))),
         count |-> Put(st.count, key, SetDefault(st.count, key, 0) + 1)]

RECURSIVE Accumulate(_, _, _)
Accumulate(st, mode, snapshot) ==
    IF Len(snapshot) = 0 THEN st
    ELSE AccumulateRow(Accumulate(st, mode, SubSeq(snapshot, 1, Len(snapshot) - 1)),
                       mode, snapshot[Len(snapshot)])

-----------------------------------------------------------------------------
(* Reduction, lines 192-226 *)

HostName == "gpu-server"

\* lines 192-194: the timestamp label, its parts instead of the formatted text
TsRange(duration, s, e) == IF duration > 0 THEN <<s, e>> ELSE <<s>>

\* round(mem_sum / c, 3) in thousandths.  mem_sum / c is a binary float, so
\* a decimal tie (mem_sum / c = x.xxx5) goes up or down with the
\* representation error: up says which
MeanMem(mem_sum, c, up) ==
    LET q == mem_sum \div c
        r == mem_sum % c
    IN  IF 2 * r < c THEN q
        ELSE IF 2 * r > c THEN q + 1
        ELSE IF up THEN q + 1 ELSE q

MemTie(mem_sum, c) == 2 * (mem_sum % c) = c

\* round(util_sum / c, 1) in tenths of a percent
MeanUtil(util_sum, c) == RoundHalfEven(util_sum * 10, c)

\* lines 198-210 / 212-226: the row of one agg entry <<key, stats>>
SummaryRow(mode, ts_range, entry, c, up) ==
    LET key == entry[1]
        st  == entry[2]
    IN  <<ts_range, HostName>> \o key \o
        <<MeanMem(st[1], c, up), st[3], MeanUtil(st[2], c)>>

\* the keys whose mean memory is a decimal tie
TieKeys(a, cnt) == {k \in Keys(a) : MemTie(Get(a, k)[1], Get(cnt, k))}

\* the largest count of cnt: the number of polls of the window
RECURSIVE WindowCount(_)
WindowCount(cnt) ==
    IF Len(cnt) = 0 THEN 0 ELSE Max(cnt[1][2], WindowCount(Tail(cnt)))

\* mutant: every key is averaged over the polls of the window
FinalRowsOverWindow(mode, ts_range, a, cnt, ups) ==
    [j \in 1..Len(a) |->
        SummaryRow(mode, ts_range, a[j], WindowCount(cnt), a[j][1] \in ups)]

FinalRows(mode, ts_range, a, cnt, ups) ==
    [j \in 1..Len(a) |->
        SummaryRow(mode, ts_range, a[j], Get(cnt, a[j][1]), a[j][1] \in ups)]

-----------------------------------------------------------------------------
(* Sheet update, lines 233-242 *)

LastColumn(mode) == IF mode = "internal" THEN "G" ELSE "I"

\* mutant: end_row without the "- 1"
RangeStrOffByOne(mode, start_row, n) == <<"A", start_row, LastColumn(mode), start_row + n>>

\* f"A{start_row}:G{end_row}", its parts instead of the formatted text
RangeStr(mode, start_row, n) == <<"A", start_row, LastColumn(mode), start_row + n - 1>>

\* mutant: ws.update() without the "if rows" test
UpdateSheetAlways(ws, mode, start_row, rs) ==
    Append(ws, [range_name |-> RangeStr(mode, start_row, Len(rs)), values |-> rs])

\* lines 241-242: the calls on the worksheet after "if rows: ws.update(...)"
UpdateSheet(ws, mode, start_row, rs) ==
    IF Len(rs) > 0
    THEN Append(ws, [range_name |-> RangeStr(mode, start_row, Len(rs)), values |-> rs])
    ELSE ws

-----------------------------------------------------------------------------
(* The run *)

\* upper bound on the polls of a run, used to bound the explored inputs
PlannedPolls(d, p) == IF d <= 0 THEN 1 ELSE (d + p - 1) \div p + 1

Init ==
    /\ SERVER_TYPE \in Modes
    /\ LOG_DURATION \in Durations
    /\ POLL_INTERVAL \in Intervals
    /\ deviceCount \in 0..MaxDevices
    /\ procTable \in SUBSET Pids
    /\ sampleTime \in SampleTimes
    \* bounds on the explored hosts: a window of several polls is explored
    \* with one device and at most one candidate process, or two idle devices
    /\ deviceCount * (1 + Cardinality(procTable)) <= MaxLoad
    /\ LOG_DURATION > 0 => deviceCount * (1 + Cardinality(procTable)) <= 2
    /\ PlannedPolls(LOG_DURATION, POLL_INTERVAL) <= MaxPolls
    /\ pc = "start"
    /\ nvml = "uninit"
    /\ shutdowns = 0
    /\ raised = "none"
    /\ now = 0
    /\ start_ts = -1
    /\ end_ts = -1
    /\ end_time = -1
    /\ agg = <<>>
    /\ count = <<>>
    /\ devs = <<>>
    /\ snap = <<>>
    /\ polls = 0
    /\ sleeps = 0
    /\ rows = <<>>
    /\ sheet = <<>>

config == <<SERVER_TYPE, LOG_DURATION, POLL_INTERVAL, deviceCount, procTable, sampleTime>>

\* mutant: a handler around the loop that goes on to the reduction
CaughtInLoop(p) == IF p = "poll" THEN "close" ELSE "crashed"

\* where control goes when a statement at position p raises: no try
\* statement encloses lines 158-190, so the exception ends the script
Uncaught(p) == "crashed"

\* line 166
EndTime(t, duration) == t + Max(duration, 0)

\* lines 158-166: nvmlInit() succeeds, the window starts
NvmlInit ==
    /\ pc = "start"
    /\ nvml' = "initialized"
    /\ start_ts' = now
    /\ end_time' = EndTime(now, LOG_DURATION)
    /\ pc' = "poll"
    /\ UNCHANGED <<config, raised, shutdowns, now, end_ts, agg, count, devs, snap, polls,
                   sleeps, rows, sheet>>

\* line 158: nvmlInit() raises; the exception is not caught and ends the script
NvmlInitFails ==
    /\ pc = "start"
    /\ pc' = Uncaught(pc)
    /\ raised' = "NVMLError"
    /\ UNCHANGED <<config, nvml, shutdowns, now, start_ts, end_ts, end_time, agg,
                   count, devs, snap, polls, sleeps, rows, sheet>>

\* lines 168-183: one snapshot in which no NVML call raises a fatal error,
\* and its accumulation
Poll ==
    /\ pc = "poll"
    /\ polls < MaxPolls
    /\ \E reading \in [1..deviceCount -> DeviceSamples(procTable)] :
          LET s  == Snapshot(SERVER_TYPE, reading)
              st == Accumulate([agg |-> agg, count |-> count], SERVER_TYPE, s)
          IN  /\ devs' = reading
              /\ snap' = s
              /\ agg' = st.agg
              /\ count' = st.count
    /\ now' = now + sampleTime
    /\ polls' = polls + 1
    /\ pc' = "check"
    /\ UNCHANGED <<config, raised, nvml, shutdowns, start_ts, end_ts, end_time, sleeps, rows, sheet>>

\* lines 101-104, 133-136: nvmlDeviceGetCount() raises (failed = 0), or a read
\* of device failed - 1 raises an error other than NotSupported on listing.
\* Nothing catches it: the script ends there, the rows built so far are lost.
PollFails ==
    /\ pc = "poll"
    /\ polls < MaxPolls
    /\ \E failed \in 0..deviceCount :
          \E reading \in [1..Max(failed - 1, 0) -> DeviceSamples(procTable)] :
              devs' = reading
    /\ pc' = Uncaught(pc)
    /\ raised' = "NVMLError"
    /\ UNCHANGED <<config, nvml, shutdowns, now, start_ts, end_ts, end_time, agg,
                   count, snap, polls, sleeps, rows, sheet>>

\* mutant: the clock test alone, strict
LoopDoneClockOnly(t, endt, duration) == t > endt

\* mutant: the window must be exceeded, not reached
LoopDoneLate(t, endt, duration) == t > endt \/ duration <= 0

\* mutant: the end of the window must be hit exactly
LoopDoneExact(t, endt, duration) == t = endt \/ duration <= 0

\* line 185
LoopDone(t, endt, duration) == t >= endt \/ duration <= 0

\* lines 185-186: break
LoopExit ==
    /\ pc = "check"
    /\ LoopDone(now, end_time, LOG_DURATION)
    /\ pc' = "close"
    /\ devs' = <<>>
    /\ snap' = <<>>
    /\ UNCHANGED <<config, raised, nvml, shutdowns, now, start_ts, end_ts, end_time, agg,
                   count, polls, sleeps, rows, sheet>>

\* line 187: time.sleep(POLL_INTERVAL)
Sleep ==
    /\ pc = "check"
    /\ ~LoopDone(now, end_time, LOG_DURATION)
    /\ now' = now + POLL_INTERVAL
    /\ sleeps' = sleeps + 1
    /\ pc' = "poll"
    /\ devs' = <<>>
    /\ snap' = <<>>
    /\ UNCHANGED <<config, raised, nvml, shutdowns, start_ts, end_ts, end_time, agg, count,
                   polls, rows, sheet>>

\* mutant: end_ts is taken but the handle is not released
NvmlShutdownOmitted ==
    /\ pc = "close"
    /\ end_ts' = now
    /\ pc' = "finalize"
    /\ UNCHANGED <<config, raised, nvml, shutdowns, now, start_ts, end_time, agg, count,
                   devs, snap, polls, sleeps, rows, sheet>>

\* lines 189-190: end_ts, nvmlShutdown()
NvmlShutdown ==
    /\ pc = "close"
    /\ end_ts' = now
    /\ nvml' = "shutdown"
    /\ shutdowns' = shutdowns + 1
    /\ pc' = "finalize"
    /\ UNCHANGED <<config, raised, now, start_ts, end_time, agg, count, devs, snap,
                   polls, sleeps, rows, sheet>>

\* lines 192-226: the rows
Finalize ==
    /\ pc = "finalize"
    /\ \E ups \in SUBSET TieKeys(agg, count) :
          rows' = FinalRows(SERVER_TYPE, TsRange(LOG_DURATION, start_ts, end_ts),
                            agg, count, ups)
    /\ pc' = "publish"
    /\ UNCHANGED <<config, raised, nvml, shutdowns, now, start_ts, end_ts, end_time, agg,
                   count, devs, snap, polls, sleeps, sheet>>

\* lines 233-242: one ws.update() when there are rows
Publish ==
    /\ pc = "publish"
    /\ \E start_row \in StartRows :
          sheet' = UpdateSheet(sheet, SERVER_TYPE, start_row, rows)
    /\ pc' = "done"
    /\ UNCHANGED <<config, raised, nvml, shutdowns, now, start_ts, end_ts, end_time, agg,
                   count, devs, snap, polls, sleeps, rows>>

Next ==
    \/ NvmlInit
    \/ NvmlInitFails
    \/ Poll
    \/ PollFails
    \/ LoopExit
    \/ Sleep
    \/ NvmlShutdown
    \/ Finalize
    \/ Publish

Spec == Init /\ [][Next]_vars

\* Timing of the runs explored for termination: windows shorter than, equal
\* to and longer than the interval, and an interval of 0
LiveDurations == {-5, 0, 1, 2, 61, 150}
LiveIntervals == {0, 1, 60}

\* the clock after the n-th snapshot of a run without error
ClockAfter(n, p, s) == n * s + (n - 1) * p

\* the configurations explored for termination: at most one device, without
\* compute processes, and a window that MaxPolls snapshots cover unless the
\* clock stands still (no time in the snapshot and none in the sleep)
InitLive ==
    /\ SERVER_TYPE \in Modes
    /\ LOG_DURATION \in LiveDurations
    /\ POLL_INTERVAL \in LiveIntervals
    /\ deviceCount \in 0..1
    /\ procTable = {}
    /\ sampleTime \in SampleTimes
    /\ \/ LOG_DURATION <= 0
       \/ POLL_INTERVAL + sampleTime = 0
       \/ ClockAfter(MaxPolls, POLL_INTERVAL, sampleTime) >= LOG_DURATION
    /\ pc = "start"
    /\ nvml = "uninit"
    /\ shutdowns = 0
    /\ raised = "none"
    /\ now = 0
    /\ start_ts = -1
    /\ end_ts = -1
    /\ end_time = -1
    /\ agg = <<>>
    /\ count = <<>>
    /\ devs = <<>>
    /\ snap = <<>>
    /\ polls = 0
    /\ sleeps = 0
    /\ rows = <<>>
    /\ sheet = <<>>

\* the script runs on: a statement that can execute does
LiveSpec == InitLive /\ [][Next]_vars /\ WF_vars(Next)

-----------------------------------------------------------------------------
(* Vocabulary of the claims *)

AfterLoop == pc \in {"close", "finalize", "publish", "done"}
Reduced == pc \in {"publish", "done"}

GpuOf(row) == IF SERVER_TYPE = "internal" THEN row[2] ELSE row[4]
UserOf(row) == IF SERVER_TYPE = "internal" THEN row[1] ELSE row[3]

\* positions in the snapshot of the observations of device i
ObsOf(i) == {j \in 1..Len(snap) : GpuOf(snap[j]) = i}

\* an IDLE observation, in the shape of the mode
IsIdleObs(row) ==
    IF SERVER_TYPE = "internal"
    THEN row[1] = "IDLE" /\ row[3] = 0
    ELSE row[1] = 0 /\ row[2] = Idle /\ row[3] = "-" /\ row[5] = 0

\* fields of a finalized row: its last three are mem, total, util
RowKey(r) == SubSeq(r, 3, Len(r) - 3)
RowMem(r) == r[Len(r) - 2]
RowTotal(r) == r[Len(r) - 1]
RowUtil(r) == r[Len(r)]
RowGpu(r) == r[Len(r) - 3]

\* the processes the device really listed in reading d
Listed(d) == IF d.listing = "ok" THEN d.procs ELSE <<>>

\* total memory, in thousandths of a GB, of the listed processes of d that
\* resolve to user u
RECURSIVE MemOfUser(_, _)
MemOfUser(procs, u) ==
    IF Len(procs) = 0 THEN 0
    ELSE (IF (IF procs[1].alive THEN Owner(procs[1].pid) ELSE "unknown") = u
          THEN ToGb(procs[1].usedGpuMemory) ELSE 0)
         + MemOfUser(Tail(procs), u)

UsersListed(procs) ==
    {IF procs[j].alive THEN Owner(procs[j].pid) ELSE "unknown" : j \in 1..Len(procs)}

-----------------------------------------------------------------------------
(* Claims *)

\* C1: with LOG_DURATION <= 0 the loop takes exactly one snapshot and leaves
\* without sleeping; every key then has sample count 1, its accumulator holds
\* the single observation, and its finalized row carries that observation's
\* memory and utilisation as the means.
C1_SingleSnapshot ==
    LOG_DURATION <= 0 =>
        /\ pc = "poll" => polls = 0
        /\ (pc = "check" \/ AfterLoop) =>
              /\ polls = 1
              /\ sleeps = 0
              /\ \A k \in Keys(agg) : Get(count, k) = 1
        /\ pc = "check" =>
              /\ Len(agg) = Len(snap)
              /\ \A j \in 1..Len(snap) :
                    agg[j] = <<KeyOf(SERVER_TYPE, snap[j]),
                               <<MemOf(SERVER_TYPE, snap[j]), UtilOf(SERVER_TYPE, snap[j]),
                                 TotalOf(SERVER_TYPE, snap[j])>> >>
        /\ Reduced =>
              /\ Len(rows) = Len(agg)
              /\ \A j \in 1..Len(rows) :
                    /\ RowKey(rows[j]) = agg[j][1]
                    /\ RowMem(rows[j]) = agg[j][2][1]
                    /\ RowUtil(rows[j]) = 10 * agg[j][2][2]

C1_Witness ==
    /\ pc = "done"
    /\ SERVER_TYPE = "internal"
    /\ Len(sheet) = 1
    /\ LOG_DURATION < 0
    /\ polls = 1
    /\ \E j \in 1..Len(rows) : RowMem(rows[j]) = 2500 /\ RowUtil(rows[j]) = 750

\* C2: with D > 0, P > 0, instantaneous sampling and exact sleeps, poll n is
\* taken at elapsed time (n - 1) * P, the loop goes on only after a poll taken
\* before D and stops right after the first poll taken at or after D; with
\* D = 120, P = 60 that is exactly 3 polls, and a key present in all of them
\* (the IDLE key of a device that never has a process) has 3 samples.
C2_PollSchedule ==
    (LOG_DURATION > 0 /\ POLL_INTERVAL > 0 /\ sampleTime = 0) =>
        /\ pc = "check" => now - start_ts = (polls - 1) * POLL_INTERVAL
        /\ (pc = "poll" /\ polls >= 1) =>
              /\ (polls - 1) * POLL_INTERVAL < LOG_DURATION
              /\ now - start_ts = polls * POLL_INTERVAL
        /\ AfterLoop =>
              /\ (polls - 1) * POLL_INTERVAL >= LOG_DURATION
              /\ (polls - 2) * POLL_INTERVAL < LOG_DURATION
              /\ sleeps = polls - 1
        /\ (AfterLoop /\ LOG_DURATION = 120 /\ POLL_INTERVAL = 60) =>
              /\ polls = 3
              /\ procTable = {} => \A k \in Keys(agg) : Get(count, k) = 3

C2_Witness ==
    /\ pc = "done"
    /\ LOG_DURATION = 120 /\ POLL_INTERVAL = 60 /\ sampleTime = 0
    /\ polls = 3
    /\ now - start_ts = 120
    /\ SERVER_TYPE = "internal"
    /\ \E k \in Keys(agg) : Get(count, k) = 3 /\ k[1] = "alice"

\* C3: after a poll, the total kept for every key observed in it is the
\* capacity of that most recent observation (last reading wins), so the
\* summary row reports the most recent capacity.
C3_LastTotalWins ==
    pc = "check" =>
        \A j \in 1..Len(snap) :
            Get(agg, KeyOf(SERVER_TYPE, snap[j]))[3] = TotalOf(SERVER_TYPE, snap[j])

\* C4: a run that initialised the device-management handle never ends with
\* the handle still initialised: it is released exactly once on every exit
\* path, normal completion and fatal device error alike.
C4_ReleasedOnEveryExit ==
    (pc \in {"done", "crashed"} /\ nvml # "uninit") =>
        (nvml = "shutdown" /\ shutdowns = 1)

\* C5: once a device read has failed with a fatal error, in the first poll or
\* a later one, the run is over: no row is finalized, the sink is never
\* written, and no further step is taken.
C5_AbortWithoutPublish ==
    raised # "none" =>
        /\ pc = "crashed"
        /\ rows = <<>>
        /\ sheet = <<>>
        /\ ~ENABLED Next

C5_Witness ==
    /\ raised = "NVMLError"
    /\ polls = 2
    /\ Len(agg) > 0
    /\ Len(devs) = 0
    /\ deviceCount = 1

\* C6: in every poll and both modes, a device with no resident process yields
\* exactly one IDLE observation with zero memory (internal: user "IDLE";
\* external: pid 0, command "IDLE", user "-"), and a device with a resident
\* process yields none.
C6_OneIdlePerIdleDevice ==
    pc = "check" =>
        \A i \in 1..Len(devs) :
            LET idle == {j \in ObsOf(i - 1) : IsIdleObs(snap[j])}
            IN  /\ Len(Listed(devs[i])) = 0 =>
                      (Cardinality(idle) = 1 /\ ObsOf(i - 1) = idle)
                /\ Len(Listed(devs[i])) > 0 => idle = {}

C6_Witness ==
    /\ pc = "check"
    /\ SERVER_TYPE = "external"
    /\ Len(devs) = 2
    /\ devs[1].listing = "ok" /\ Len(devs[1].procs) = 0
    /\ Len(devs[2].procs) > 0
    /\ Cardinality({j \in 1..Len(snap) : IsIdleObs(snap[j])}) = 1

\* C7: no device is omitted: every snapshot has an observation of each device
\* index 0..N-1, and the finalized rows of a completed run have a row for
\* every device index.
C7_NoDeviceOmitted ==
    /\ pc = "check" =>
          /\ Len(devs) = deviceCount
          /\ \A i \in 0..(deviceCount - 1) : ObsOf(i) # {}
    /\ Reduced =>
          \A i \in 0..(deviceCount - 1) : \E j \in 1..Len(rows) : RowGpu(rows[j]) = i

C7_Witness ==
    /\ pc = "done"
    /\ SERVER_TYPE = "internal"
    /\ deviceCount = 2
    /\ \E j \in 1..Len(rows) : RowGpu(rows[j]) = 0 /\ RowKey(rows[j])[1] = "IDLE"
    /\ \E j \in 1..Len(rows) : RowGpu(rows[j]) = 1 /\ RowKey(rows[j])[1] = "bob"

\* C8: a listed process whose identity lookup fails does not abort the poll:
\* it still yields an observation with its device-reported memory, under user
\* "unknown" (internal: summed in the ("unknown", device) observation;
\* external: user "unknown", command "unknown"), and every other listed
\* process and every device of the poll is still sampled.
C8_GoneProcessStillObserved ==
    pc = "check" =>
        \A i \in 1..Len(devs) :
            \A n \in 1..Len(Listed(devs[i])) :
                LET p == Listed(devs[i])[n]
                    u == IF p.alive THEN Owner(p.pid) ELSE "unknown"
                IN  /\ ObsOf(i - 1) # {}
                    /\ SERVER_TYPE = "internal" =>
                          \E j \in ObsOf(i - 1) :
                              /\ snap[j][1] = u
                              /\ snap[j][3] = MemOfUser(Listed(devs[i]), u)
                    /\ SERVER_TYPE = "external" =>
                          \E j \in ObsOf(i - 1) :
                              /\ snap[j][1] = p.pid
                              /\ snap[j][3] = u
                              /\ snap[j][5] = ToGb(p.usedGpuMemory)
                              /\ ~p.alive => snap[j][2] = Unknown

C8_Witness ==
    /\ pc = "check"
    /\ SERVER_TYPE = "external"
    /\ Len(devs) = 1
    /\ Len(devs[1].procs) = 2
    /\ ~devs[1].procs[1].alive
    /\ devs[1].procs[2].alive
    /\ Len(snap) = 2
    /\ snap[1][2] = Unknown /\ snap[1][3] = "unknown" /\ snap[1][5] = 4001
    /\ snap[2][3] = "bob" /\ Len(snap[2][2]) = CmdLimit

\* a second reachable case of C8: internal mode, two processes whose lookups
\* fail are summed under ("unknown", device)
C8_WitnessInternal ==
    /\ pc = "check"
    /\ SERVER_TYPE = "internal"
    /\ \E j \in 1..Len(snap) : snap[j][1] = "unknown" /\ snap[j][3] = 2500

\* C9: a device whose process listing raises the unsupported-operation error
\* counts as having no process: it yields exactly one IDLE observation, which
\* carries the device's utilisation and total capacity; the other devices of
\* the poll are read and the run goes on.
C9_UnsupportedListingIsIdle ==
    pc = "check" =>
        /\ raised = "none"
        /\ Len(devs) = deviceCount
        /\ \A i \in 1..Len(devs) :
              devs[i].listing = "NotSupported" =>
                  /\ Cardinality(ObsOf(i - 1)) = 1
                  /\ \A j \in ObsOf(i - 1) :
                        /\ IsIdleObs(snap[j])
                        /\ UtilOf(SERVER_TYPE, snap[j]) = devs[i].util
                        /\ TotalOf(SERVER_TYPE, snap[j]) = ToGb(devs[i].total)
        /\ \A i \in 0..(deviceCount - 1) : ObsOf(i) # {}

C9_Witness ==
    /\ pc = "check"
    /\ SERVER_TYPE = "internal"
    /\ Len(devs) = 2
    /\ devs[1].listing = "NotSupported"
    /\ Len(devs[2].procs) = 1
    /\ snap = << <<"IDLE", 0, 0, 15990, 75>>, <<"alice", 1, 1000, 24000, 20>> >>

\* C10: in internal (aggregated) mode every snapshot holds, for each device,
\* exactly one observation per distinct resolved user of that device, whose
\* memory is the sum of the memory of that user's processes on that device and
\* of nothing else; a device's observations are of its resolved users only.
C10_PerUserSum ==
    (pc = "check" /\ SERVER_TYPE = "internal") =>
        \A i \in 1..Len(devs) :
            LET procs == Listed(devs[i])
            IN  /\ \A u \in UsersListed(procs) :
                      /\ Cardinality({j \in ObsOf(i - 1) : snap[j][1] = u}) = 1
                      /\ \A j \in ObsOf(i - 1) :
                            snap[j][1] = u => snap[j][3] = MemOfUser(procs, u)
                /\ Len(procs) > 0 =>
                      \A j \in ObsOf(i - 1) : snap[j][1] \in UsersListed(procs)

C10_Witness ==
    /\ pc = "check"
    /\ SERVER_TYPE = "internal"
    /\ Len(devs) = 1
    /\ Len(devs[1].procs) = 2
    /\ devs[1].procs[1].alive /\ devs[1].procs[2].alive
    /\ snap = << <<"alice", 0, 2500, 24000, 20>> >>


\* the number of observations a reading must give in external mode
RECURSIVE ExpectedObs(_)
ExpectedObs(reading) ==
    IF Len(reading) = 0 THEN 0
    ELSE Max(Len(Listed(reading[1])), 1) + ExpectedObs(Tail(reading))

\* C11: in external (detailed) mode a device with k >= 1 listed processes
\* yields exactly k observations, the n-th one carrying the pid and memory of
\* the n-th process, whatever the users (no grouping); with LOG_DURATION <= 0
\* the accumulators, and then the finalized rows, are one per listed process
\* (plus one per idle device).
C11_OnePerProcess ==
    SERVER_TYPE = "external" =>
        /\ pc = "check" =>
              /\ \A i \in 1..Len(devs) :
                    LET procs == Listed(devs[i])
                        obs   == SelectSeq(snap, LAMBDA r : r[4] = i - 1)
                    IN  Len(procs) >= 1 =>
                          /\ Len(obs) = Len(procs)
                          /\ \A n \in 1..Len(procs) :
                                /\ obs[n][1] = procs[n].pid
                                /\ obs[n][5] = ToGb(procs[n].usedGpuMemory)
              /\ Len(snap) = ExpectedObs(devs)
              /\ LOG_DURATION <= 0 =>
                    /\ Len(agg) = ExpectedObs(devs)
                    /\ \A j \in 1..Len(snap) : agg[j][1] = SubSeq(snap[j], 1, 4)
        /\ (Reduced /\ LOG_DURATION <= 0) =>
              /\ Len(rows) = Len(agg)
              /\ \A j \in 1..Len(rows) : RowKey(rows[j]) = agg[j][1]

C11_Witness ==
    /\ pc = "done"
    /\ SERVER_TYPE = "external"
    /\ LOG_DURATION = 0
    /\ deviceCount = 1
    /\ Len(rows) = 2
    /\ rows[1][3] = 101 /\ rows[1][5] = "alice" /\ RowMem(rows[1]) = 1000
    /\ rows[2][3] = 102 /\ rows[2][5] = "alice" /\ RowMem(rows[2]) = 1500


-----------------------------------------------------------------------------
(* Observed values of a key in one snapshot *)

SnapKeys(s) == {KeyOf(SERVER_TYPE, s[j]) : j \in 1..Len(s)}

RECURSIVE SnapCount(_, _)
SnapCount(s, k) ==
    IF Len(s) = 0 THEN 0
    ELSE (IF KeyOf(SERVER_TYPE, s[1]) = k THEN 1 ELSE 0) + SnapCount(Tail(s), k)

RECURSIVE SnapMem(_, _)
SnapMem(s, k) ==
    IF Len(s) = 0 THEN 0
    ELSE (IF KeyOf(SERVER_TYPE, s[1]) = k THEN MemOf(SERVER_TYPE, s[1]) ELSE 0)
         + SnapMem(Tail(s), k)

RECURSIVE SnapUtil(_, _)
SnapUtil(s, k) ==
    IF Len(s) = 0 THEN 0
    ELSE (IF KeyOf(SERVER_TYPE, s[1]) = k THEN UtilOf(SERVER_TYPE, s[1]) ELSE 0)
         + SnapUtil(Tail(s), k)

Abs(x) == IF x >= 0 THEN x ELSE -x

\* a poll step
PollStep == pc = "poll" /\ pc' = "check"

\* in a poll step every key of the snapshot gains its observed memory,
\* utilisation and number of observations; nothing else changes the sums
SumsFollowObservations ==
    IF PollStep
    THEN /\ Keys(agg') = Keys(agg) \cup SnapKeys(snap')
         /\ Keys(count') = Keys(agg')
         /\ \A k \in Keys(agg') :
               /\ Get(agg', k)[1] = (IF Has(agg, k) THEN Get(agg, k)[1] ELSE 0) + SnapMem(snap', k)
               /\ Get(agg', k)[2] = (IF Has(agg, k) THEN Get(agg, k)[2] ELSE 0) + SnapUtil(snap', k)
               /\ Get(count', k) = (IF Has(count, k) THEN Get(count, k) ELSE 0) + SnapCount(snap', k)
    ELSE agg' = agg /\ count' = count

\* the finalized rows are the keys of agg, each once, and each row's means are
\* its key's sums divided by its key's count, to the nearest thousandth of a
\* GB and the nearest tenth of a percent
RowsAreMeans ==
    Reduced =>
        /\ Len(rows) = Len(agg)
        /\ \A i, j \in 1..Len(agg) : agg[i][1] = agg[j][1] => i = j
        /\ \A j \in 1..Len(rows) :
              LET c == Get(count, agg[j][1])
              IN  /\ RowKey(rows[j]) = agg[j][1]
                  /\ Len(rows[j]) = Len(agg[j][1]) + 5
                  /\ 2 * Abs(c * RowMem(rows[j]) - agg[j][2][1]) <= c
                  /\ 2 * Abs(c * RowUtil(rows[j]) - 10 * agg[j][2][2]) <= c

\* C12: the sums and counts of agg are, key by key, the sums and the number of
\* the values observed in the polls of the window, and finalize emits exactly
\* one row per key of agg and none for any other key, whose mean memory and
\* mean utilisation are the key's sums divided by the key's sample count
\* (rounded to 3 decimals and to 1 decimal).
C12_RowPerKeyWithMeans == [][SumsFollowObservations]_vars /\ []RowsAreMeans

C12_Witness ==
    /\ pc = "done"
    /\ SERVER_TYPE = "internal"
    /\ polls = 3
    /\ Len(rows) = 2
    /\ agg[1] = << <<"alice", 0>>, <<5001, 95, 24000>> >>
    /\ Get(count, <<"alice", 0>>) = 2
    /\ RowMem(rows[1]) = 2501 /\ RowUtil(rows[1]) = 475
    /\ RowKey(rows[2]) = <<"IDLE", 0>> /\ Get(count, <<"IDLE", 0>>) = 1


-----------------------------------------------------------------------------
\* key k has so far been observed only with memory m and utilisation u
\* (its sums are its count times m and u)
UniformAt(a, cnt, k, m, u) ==
    /\ Get(a, k)[1] = Get(cnt, k) * m
    /\ Get(a, k)[2] = Get(cnt, k) * u

\* a poll that observes key k once, with the values the key has always had
\* (or for the first time), leaves the key uniform with one more sample
RepeatKeepsUniform ==
    PollStep =>
        \A j \in 1..Len(snap') :
            LET k == KeyOf(SERVER_TYPE, snap'[j])
                m == MemOf(SERVER_TYPE, snap'[j])
                u == UtilOf(SERVER_TYPE, snap'[j])
            IN  (SnapCount(snap', k) = 1 /\ (Has(agg, k) => UniformAt(agg, count, k, m, u)))
                => /\ Get(count', k) = (IF Has(count, k) THEN Get(count, k) ELSE 0) + 1
                   /\ UniformAt(agg', count', k, m, u)

\* a key whose sums are its count times (m, u) is finalized with means m and u
UniformMeansAreTheValue ==
    Reduced =>
        \A j \in 1..Len(agg) :
            LET c == Get(count, agg[j][1])
                s == agg[j][2]
            IN  (c >= 1 /\ s[1] % c = 0 /\ s[2] % c = 0)
                => /\ RowMem(rows[j]) = s[1] \div c
                   /\ RowUtil(rows[j]) = 10 * (s[2] \div c)

\* C13: a key observed N >= 1 times with identical values has sample count N
\* and sums N times the values, and its finalized mean memory and mean
\* utilisation are the observation's own memory and utilisation, for every N.
C13_RepeatedObservation == [][RepeatKeepsUniform]_vars /\ []UniformMeansAreTheValue

C13_Witness ==
    /\ pc = "done"
    /\ polls = 3
    /\ Len(rows) = 1
    /\ Get(count, agg[1][1]) = 3
    /\ agg[1][2][1] = 3 * 4001 /\ agg[1][2][2] = 3 * 75
    /\ RowMem(rows[1]) = 4001 /\ RowUtil(rows[1]) = 750


-----------------------------------------------------------------------------
\* C14: a window that ends with no accumulated key gives an empty row list and
\* no call on the sheet; a run that ends with at least one row has written the
\* sheet in exactly one call, which carries all the rows.
C14_EmptySkipsElseOneBatch ==
    /\ Reduced => (Len(rows) = 0 <=> Len(agg) = 0)
    /\ pc = "done" =>
          IF Len(agg) = 0
          THEN rows = <<>> /\ sheet = <<>>
          ELSE Len(rows) >= 1 /\ Len(sheet) = 1 /\ sheet[1].values = rows

C14_Witness ==
    /\ pc = "done"
    /\ deviceCount = 0
    /\ polls = 1
    /\ agg = <<>>
    /\ rows = <<>>
    /\ sheet = <<>>

\* the written range names rows first..last of columns A..col
RangeRows(range_name) == range_name[4] - range_name[2] + 1

\* C15: the call on the sheet targets rows start_row .. start_row + len(rows)
\* - 1 from column A to column G (internal, 7 values a row: timestamp, host,
\* user, gpu_id, mean memory, total, mean utilisation) or to column I
\* (external, 9 values a row: timestamp, host, pid, cmd, user, gpu_id, mean
\* memory, total, mean utilisation).
C15_RangeAndColumns ==
    \A n \in 1..Len(sheet) :
        LET range_name == sheet[n].range_name
            values     == sheet[n].values
            ts_range   == TsRange(LOG_DURATION, start_ts, end_ts)
        IN  /\ range_name[1] = "A"
            /\ range_name[2] \in StartRows
            /\ range_name[4] = range_name[2] + Len(values) - 1
            /\ RangeRows(range_name) = Len(rows)
            /\ values = rows
            /\ \A j \in 1..Len(values) :
                  LET r     == values[j]
                      stats == agg[j][2]
                      c     == Get(count, agg[j][1])
                  IN  /\ r[1] = ts_range
                      /\ r[2] = HostName
                      /\ IF SERVER_TYPE = "internal"
                         THEN /\ range_name[3] = "G"
                              /\ Len(r) = 7
                              /\ <<r[3], r[4]>> = agg[j][1]
                              /\ r[4] \in 0..(deviceCount - 1)
                              /\ 2 * Abs(c * r[5] - stats[1]) <= c
                              /\ r[6] = stats[3]
                              /\ 2 * Abs(c * r[7] - 10 * stats[2]) <= c
                         ELSE /\ range_name[3] = "I"
                              /\ Len(r) = 9
                              /\ <<r[3], r[4], r[5], r[6]>> = agg[j][1]
                              /\ r[3] \in Pids \cup {0}
                              /\ r[4] \in {Idle} \cup {ResolveCmd(h) : h \in ProcessHandles}
                              /\ r[5] \in {"-", "alice", "bob", "unknown"}
                              /\ r[6] \in 0..(deviceCount - 1)
                              /\ 2 * Abs(c * r[7] - stats[1]) <= c
                              /\ r[8] = stats[3]
                              /\ 2 * Abs(c * r[9] - 10 * stats[2]) <= c

C15_Witness ==
    /\ pc = "done"
    /\ SERVER_TYPE = "external"
    /\ Len(sheet) = 1
    /\ sheet[1].range_name = <<"A", 7, "I", 8>>
    /\ Len(sheet[1].values) = 2
    /\ Len(sheet[1].values[1]) = 9
    /\ sheet[1].values[1][3] = 101
    /\ sheet[1].values[2][3] = 102


-----------------------------------------------------------------------------
\* C17: agg and count hold the same keys (in the same order, each once), and
\* every count is at least 1, so the division of the reduction never meets a
\* missing or zero count.
C17_CountForEveryKey ==
    /\ Len(count) = Len(agg)
    /\ \A j \in 1..Len(agg) : count[j][1] = agg[j][1] /\ count[j][2] >= 1
    /\ \A i, j \in 1..Len(agg) : agg[i][1] = agg[j][1] => i = j
    /\ Keys(agg) = Keys(count)

C17_Witness ==
    /\ pc = "finalize"
    /\ polls = 3
    /\ Len(agg) = 2
    /\ count[1][2] = 2
    /\ count[2][2] = 1


-----------------------------------------------------------------------------
\* a poll counts one sample for each observation of a key, and none for a key
\* its snapshot does not hold; in internal mode a snapshot holds a key once
CountsObservations ==
    PollStep =>
        /\ \A k \in Keys(count') :
              Get(count', k) = (IF Has(count, k) THEN Get(count, k) ELSE 0)
                               + SnapCount(snap', k)
        /\ SERVER_TYPE = "internal" =>
              \A k \in SnapKeys(snap') : SnapCount(snap', k) = 1

\* in internal mode no count exceeds the number of polls, and a key's means
\* are taken over its own count
MeanOverOwnCount ==
    /\ SERVER_TYPE = "internal" => \A j \in 1..Len(count) : count[j][2] <= polls
    /\ Reduced =>
          \A j \in 1..Len(rows) :
              LET c == count[j][2]
              IN  /\ c >= 1
                  /\ 2 * Abs(c * RowMem(rows[j]) - agg[j][2][1]) <= c
                  /\ 2 * Abs(c * RowUtil(rows[j]) - 10 * agg[j][2][2]) <= c

\* C18: a key's sample count is the number of observations of the key, not
\* the number of polls: in internal mode a key appears at most once in a
\* snapshot, so its count is at most the number of polls, and a key seen in k
\* of n polls is averaged over k (alice with 4.001 GB in one of three polls
\* has mean 4.001 GB).
C18_CountIsObservations == [][CountsObservations]_vars /\ []MeanOverOwnCount

C18_Witness ==
    /\ pc = "done"
    /\ SERVER_TYPE = "internal"
    /\ polls = 3
    /\ Len(rows) = 2
    /\ Keys(count) = {<<"alice", 0>>, <<"IDLE", 0>>}
    /\ Get(count, <<"alice", 0>>) = 1
    /\ Get(count, <<"IDLE", 0>>) = 2
    /\ \E j \in 1..2 : /\ RowKey(rows[j]) = <<"alice", 0>>
                       /\ agg[j][2][1] = 4001
                       /\ RowMem(rows[j]) = 4001


-----------------------------------------------------------------------------
\* where the run stands allows what has happened so far
OrderedState ==
    /\ pc \in {"poll", "check"} => nvml = "initialized"
    /\ (polls >= 1 \/ devs # <<>>) => nvml # "uninit"
    /\ nvml = "shutdown" => AfterLoop /\ pc # "close" /\ shutdowns = 1
    /\ Reduced => nvml = "shutdown"
    /\ Len(sheet) <= 1
    /\ Len(sheet) = 1 => pc = "done" /\ nvml = "shutdown"

\* what a step does is allowed where the run stands
OrderedStep ==
    /\ (devs' # devs /\ devs' # <<>>) => nvml = "initialized" /\ pc = "poll"
    /\ (agg' # agg \/ count' # count \/ polls' # polls) =>
          nvml = "initialized" /\ pc = "poll"
    /\ (nvml = "shutdown" \/ pc \in {"finalize", "publish", "done"}) =>
          /\ agg' = agg /\ count' = count /\ polls' = polls
          /\ devs' = devs /\ snap' = snap
          /\ nvml' = nvml
    /\ nvml' # nvml => \/ nvml = "uninit" /\ nvml' = "initialized" /\ polls = 0
                       \/ nvml = "initialized" /\ nvml' = "shutdown" /\ pc = "close"
    /\ sheet' # sheet => /\ sheet = <<>>
                         /\ pc = "publish"
                         /\ nvml = "shutdown"
    /\ rows' # rows => pc = "finalize" /\ nvml = "shutdown"

\* C19: the handle is initialized before the first device read, every device
\* read and every accumulation happens while it is initialized and before it
\* is released, the sheet is written at most once and only after the loop has
\* ended and the handle has been released, and nothing is read or accumulated
\* once the rows have been reduced.
C19_EventOrder == [][OrderedStep]_vars /\ []OrderedState

C19_Witness ==
    /\ pc = "done"
    /\ nvml = "shutdown"
    /\ shutdowns = 1
    /\ polls = 3
    /\ sleeps = 2
    /\ Len(sheet) = 1


-----------------------------------------------------------------------------
\* time passes in the snapshot or in the sleep
ClockAdvances == POLL_INTERVAL + sampleTime > 0

\* the positions of the script in the order of the text
Rank(p) ==
    CASE p = "start"    -> 0
      [] p = "poll"     -> 1
      [] p = "check"    -> 1
      [] p = "close"    -> 2
      [] p = "finalize" -> 3
      [] p = "publish"  -> 4
      [] p = "done"     -> 5
      [] p = "crashed"  -> 6

\* control never goes back over the end of the loop, and the reduction is
\* entered from the release and left for the publication
ForwardOnly ==
    /\ Rank(pc') >= Rank(pc)
    /\ pc' = "close" => pc = "check" /\ polls >= 1
    /\ pc' = "finalize" => pc = "close"
    /\ pc = "finalize" => pc' = "publish"
    /\ rows' # rows => pc = "finalize"

\* C16: for every duration and every poll interval >= 0, when no NVML call
\* fails and the clock advances (or the duration is <= 0), the loop ends, the
\* rows are reduced and the script runs to its end; the reduction is passed
\* once; the loop is never left before one snapshot has been accumulated.
C16_LoopEndsReducedOnce ==
    /\ (POLL_INTERVAL >= 0 /\ (ClockAdvances \/ LOG_DURATION <= 0))
          => <>(pc = "done" \/ raised # "none")
    /\ [][ForwardOnly]_vars
    /\ [](AfterLoop => polls >= 1)

C16_Witness ==
    /\ pc = "done"
    /\ raised = "none"
    /\ POLL_INTERVAL = 0
    /\ LOG_DURATION = 2
    /\ sampleTime = 1
    /\ polls = 2
    /\ sleeps = 1

\* without the advancing clock the loop need not end
C16_EndsWhateverTheClock == <>(pc = "done" \/ raised # "none")

====
